---- MODULE Spec2Model ----
(***************************************************************************)
(* AirPredict: the gesture-to-action pipeline of air_predict_app.py and    *)
(* hand_tracker.py as a state machine.                                     *)
(*                                                                         *)
(* The Tk event loop is single threaded.  A callback scheduled with        *)
(* window.after(ms, f) is a pending one-shot entry; the delay is not       *)
(* measured, the entry fires at some later step (the tick period is 10 ms, *)
(* so up to 50 ticks fit before a 500 ms callback and up to 100 before a   *)
(* 1000 ms callback).  An exception that leaves a callback is reported by  *)
(* Tk and the event loop goes on with the other pending entries.           *)
(***************************************************************************)
EXTENDS Integers, Sequences, FiniteSets, TLC

VARIABLES
    phase,            \* "loading" | "setup_pending" | "running" | "destroyed"
    comp,             \* the components the worker loads, and the worker itself
    win_mapped,       \* window.winfo_width() > 1
    sentence_text,    \* self.sentence_text, a sequence of characters
    last,             \* (self.last_x, self.last_y): <<>> is None, else <<x, y>>
    smooth,           \* (self.smooth_x, self.smooth_y)
    pinch_active,     \* self.pinch_active
    hovered_button,   \* self.hovered_button: "None" or a button
    current_mode,     \* self.current_mode
    ink,              \* canvas items tagged "drawing", in creation order
    pending,          \* number of pending window.after entries per callback
    prev_draw,        \* history: the most recent tick with a signal reported DRAW
    ev,               \* history: what the last step did and met
    probe             \* a function examined on its own: its input and result

session_vars == <<phase, comp, win_mapped, sentence_text, last, smooth, pinch_active,
                  hovered_button, current_mode, ink, pending, prev_draw, ev>>

vars == <<session_vars, probe>>

-----------------------------------------------------------------------------
(* Bounds of the model *)


MaxSentence == 1
MaxInk == 1
MaxClearTimers == 2
MaxSmoothTicks == 8
MaxCrop == 6

-----------------------------------------------------------------------------
(* Program constants *)

FRAME_PADDING == 100
SMOOTHING_ALPHA_TENTHS == 3
CURSOR_SIZE == 10
PINCH_THRESHOLD == 30
ALPHABET_LABELS ==
    <<"A", "B", "C", "D", "E", "F", "G", "H", "I", "J", "K", "L", "M",
      "N", "O", "P", "Q", "R", "S", "T", "U", "V", "W", "X", "Y", "Z">>
NUMBER_LABELS == <<"0", "1", "2", "3", "4", "5", "6", "7", "8", "9">>

None == "None"
NoCoords == <<>>
IMG_SIZE == 28
GLYPH_SIZE == 20
GLYPH_BORDER == 4
WHITE == 255

-----------------------------------------------------------------------------
(* The environment: camera size, window geometry as Tk reports it.  The    *)
(* window is a small one, which keeps the cursor positions few; the        *)
(* toolbar lies far enough to the right of the canvas for the cursor oval  *)
(* (radius CURSOR_SIZE) to leave the canvas when it rests on a button.     *)

cam_width == 640
cam_height == 480
win_width == 20
win_height == 16

\* The canvas widget: winfo_x, winfo_y, winfo_width, winfo_height.
canvas_geom == [x |-> 1, y |-> 1, width |-> 5, height |-> 10]

\* self.clickable_buttons, in order.
clickable_buttons ==
    <<"btn_switch_mode", "btn_space", "btn_backspace", "btn_clear",
      "suggestion0", "suggestion1", "suggestion2">>

\* Each button's rectangle relative to the window and its 'state' option.
\* The suggestion buttons are created disabled and never configured again.
button_geom(b) ==
    CASE b = "btn_switch_mode" -> [x |-> 14, y |-> 0, width |-> 6, height |-> 3]
      [] b = "btn_space"       -> [x |-> 14, y |-> 3, width |-> 6, height |-> 3]
      [] b = "btn_backspace"   -> [x |-> 14, y |-> 6, width |-> 6, height |-> 3]
      [] b = "btn_clear"       -> [x |-> 14, y |-> 9, width |-> 6, height |-> 3]
      [] b = "suggestion0"     -> [x |-> 0, y |-> 12, width |-> 2, height |-> 2]
      [] b = "suggestion1"     -> [x |-> 2, y |-> 12, width |-> 2, height |-> 2]
      [] b = "suggestion2"     -> [x |-> 4, y |-> 12, width |-> 2, height |-> 2]

button_state(b) ==
    IF b \in {"suggestion0", "suggestion1", "suggestion2"}
    THEN "disabled" ELSE "normal"

\* The 'text' option of a suggestion button: set when the button is created
\* and by no handler after that.
suggestion_text(b) == "---"

-----------------------------------------------------------------------------
(* hand_tracker.py                                                         *)
(* A hand is a function from landmark ids to <<x, y>>; the normalized      *)
(* coordinate of a landmark is x / LM_GRID, y / LM_GRID (all values and    *)
(* their products with the frame size are exact in binary floating point). *)

LM_GRID == 64
LandmarkIds == {4, 6, 8, 10, 12, 14, 16, 18, 20}

\* fingers_up that also counts a tip level with its joint as up.
fingers_up_nonstrict(landmarks) ==
    << landmarks[8][2] <= landmarks[6][2],
       landmarks[12][2] <= landmarks[10][2],
       landmarks[16][2] <= landmarks[14][2],
       landmarks[20][2] <= landmarks[18][2] >>

fingers_up(landmarks) ==
    << landmarks[8][2] < landmarks[6][2],
       landmarks[12][2] < landmarks[10][2],
       landmarks[16][2] < landmarks[14][2],
       landmarks[20][2] < landmarks[18][2] >>

\* int(index_tip.x * w)
PixelOf(n, dim) == (n * dim) \div LM_GRID

\* math.hypot(index.x - thumb.x, index.y - thumb.y) * w < self.pinch_threshold,
\* squared and multiplied by LM_GRID^2 on both sides.
pinch_distance_below(index_tip, thumb_tip, w) ==
    LET dx == index_tip[1] - thumb_tip[1]
        dy == index_tip[2] - thumb_tip[2]
    IN (dx * dx + dy * dy) * w * w
         < PINCH_THRESHOLD * PINCH_THRESHOLD * LM_GRID * LM_GRID

\* The loop body with the finger states consulted before the pinch distance.
process_hand_fingers_first(output, landmarks, w, h) ==
    LET index_tip == landmarks[8]
        thumb_tip == landmarks[4]
        cursor_coords == <<PixelOf(index_tip[1], w), PixelOf(index_tip[2], h)>>
        finger_states == fingers_up(landmarks)
        gesture ==
            IF finger_states = <<TRUE, TRUE, TRUE, TRUE>> THEN "MOVE"
            ELSE IF finger_states = <<TRUE, FALSE, FALSE, FALSE>> THEN "DRAW"
            ELSE IF pinch_distance_below(index_tip, thumb_tip, w) THEN "PINCH"
            ELSE output.gesture
    IN [gesture |-> gesture, cursor_coords |-> cursor_coords]

\* One pass of the loop body over a detected hand.
process_hand(output, landmarks, w, h) ==
    LET index_tip == landmarks[8]
        thumb_tip == landmarks[4]
        cursor_coords == <<PixelOf(index_tip[1], w), PixelOf(index_tip[2], h)>>
        finger_states == fingers_up(landmarks)
        gesture ==
            IF pinch_distance_below(index_tip, thumb_tip, w) THEN "PINCH"
            ELSE IF finger_states = <<TRUE, TRUE, TRUE, TRUE>> THEN "MOVE"
            ELSE IF finger_states = <<TRUE, FALSE, FALSE, FALSE>> THEN "DRAW"
            ELSE output.gesture
    IN [gesture |-> gesture, cursor_coords |-> cursor_coords]

RECURSIVE process_hands(_, _, _, _)
process_hands(output, multi_hand_landmarks, w, h) ==
    IF multi_hand_landmarks = <<>> THEN output
    ELSE process_hands(process_hand(output, Head(multi_hand_landmarks), w, h),
                       Tail(multi_hand_landmarks), w, h)

\* HandTracker.process_frame on a frame of size w x h in which the landmark
\* detector reports multi_hand_landmarks (a sequence of hands, possibly empty).
process_frame(multi_hand_landmarks, w, h) ==
    process_hands([gesture |-> "NONE", cursor_coords |-> NoCoords],
                  multi_hand_landmarks, w, h)

-----------------------------------------------------------------------------
(* air_predict_app.py: coordinate mapping and smoothing                    *)

clip(v, lo, hi) == IF v < lo THEN lo ELSE IF v > hi THEN hi ELSE v

\* map_axis that continues the line beyond the margins and does not clamp.
map_axis_extrapolated(c, cam_dim, win_dim) ==
    LET lo == FRAME_PADDING
        hi == cam_dim - FRAME_PADDING
    IN IF hi <= lo THEN (IF c > hi THEN win_dim ELSE 0)
       ELSE ((c - lo) * win_dim + (hi - lo) * win_dim) \div (hi - lo) - win_dim

\* map_axis that runs from display_dim down to 0.
map_axis_mirrored(c, cam_dim, win_dim) ==
    LET lo == FRAME_PADDING
        hi == cam_dim - FRAME_PADDING
    IN IF c > hi THEN 0
       ELSE IF c < lo THEN win_dim
       ELSE IF c >= hi THEN 0
       ELSE win_dim - ((c - lo) * win_dim) \div (hi - lo)

\* int(np.clip(np.interp(c, [PAD, cam_dim - PAD], [0, win_dim]), 0, win_dim));
\* the value is not negative, so int() is the floor.
map_axis(c, cam_dim, win_dim) ==
    LET lo == FRAME_PADDING
        hi == cam_dim - FRAME_PADDING
        \* np.interp on xp = [lo, hi]: right of xp[-1], left of xp[0], then
        \* the linear search for the interval (xp is not checked to increase)
        interp == IF c > hi THEN win_dim
                  ELSE IF c < lo THEN 0
                  ELSE IF c >= hi THEN win_dim
                  ELSE IF c = lo THEN 0
                  ELSE ((c - lo) * win_dim) \div (hi - lo)
    IN clip(interp, 0, win_dim)

\* _map_coords that maps a missing cursor to the window's origin.
_map_coords_origin(hand_coords) ==
    IF hand_coords = NoCoords THEN <<0, 0>>
    ELSE <<map_axis(hand_coords[1], cam_width, win_width),
           map_axis(hand_coords[2], cam_height, win_height)>>

_map_coords(hand_coords) ==
    IF hand_coords = NoCoords THEN NoCoords
    ELSE <<map_axis(hand_coords[1], cam_width, win_width),
           map_axis(hand_coords[2], cam_height, win_height)>>

\* The pairs (mapped, smoothed) in 0..20 for which 0.3*m + (1 - 0.3)*s,
\* evaluated in IEEE-754 doubles, comes out just below its exact integer
\* value, so that int() gives one less than the exact quotient.
FloatShortfall ==
    {<<1, 11>>, <<2, 12>>, <<3, 3>>, <<4, 14>>, <<6, 6>>, <<7, 17>>,
     <<9, 19>>, <<12, 12>>}

\* int(SMOOTHING_ALPHA * m + (1 - SMOOTHING_ALPHA) * s)
ema(m, s) ==
    (SMOOTHING_ALPHA_TENTHS * m + (10 - SMOOTHING_ALPHA_TENTHS) * s) \div 10
      - (IF <<m, s>> \in FloatShortfall THEN 1 ELSE 0)

-----------------------------------------------------------------------------
(* The session as one record, so that the handlers compose.  The fields    *)
(* after pending describe the step being taken (they become ev).           *)

Quiet ==
    [kind |-> "-", gesture |-> "-", recog |-> "none", argmax |-> -1,
     said |-> "", click |-> None, stale_used |-> FALSE, raised |-> FALSE,
     reported |-> FALSE]

Session ==
    [sentence_text |-> sentence_text, last |-> last, smooth |-> smooth,
     pinch_active |-> pinch_active, hovered_button |-> hovered_button,
     current_mode |-> current_mode, ink |-> ink, pending |-> pending,
     prev_draw |-> prev_draw, t |-> Quiet]

_clear_drawing_canvas(s) == [s EXCEPT !.ink = <<>>]

\* reset_pinch that leaves the flag as it is.
reset_pinch_stuck(s) == s

reset_pinch(s) == [s EXCEPT !.pinch_active = FALSE]

on_switch_mode(s) ==
    [s EXCEPT !.current_mode =
        IF @ = "ALPHABETS" THEN "NUMBERS" ELSE "ALPHABETS"]

on_space_press(s) == [s EXCEPT !.sentence_text = Append(@, " ")]

on_backspace_press(s) ==
    [s EXCEPT !.sentence_text =
        IF @ = <<>> THEN <<>> ELSE SubSeq(@, 1, Len(@) - 1)]

on_clear_press(s) == _clear_drawing_canvas(s)

\* Button.invoke(): runs the button's command unless the button is disabled.
\* The command runs inside Tk's callback wrapper: when it raises (fault
\* "command", at its first statement), Tk reports the exception and invoke
\* returns.
invoke(s, b, fault) ==
    IF button_state(b) = "disabled" THEN s
    ELSE IF fault = "command" THEN [s EXCEPT !.t.reported = TRUE]
    ELSE CASE b = "btn_switch_mode" -> on_switch_mode(s)
           [] b = "btn_space"       -> on_space_press(s)
           [] b = "btn_backspace"   -> on_backspace_press(s)
           [] b = "btn_clear"       -> on_clear_press(s)
           [] OTHER                 -> s

inside(g, x, y) ==
    /\ g.x < x /\ x < g.x + g.width
    /\ g.y < y /\ y < g.y + g.height

\* _update_button_hovers without the test of the button's state.
_update_button_hovers_any_state(s, cursor_x, cursor_y) ==
    LET hits == {i \in 1..Len(clickable_buttons) :
                    inside(button_geom(clickable_buttons[i]), cursor_x, cursor_y)}
        currently_hovered ==
            IF hits = {} THEN None
            ELSE clickable_buttons[CHOOSE i \in hits : \A j \in hits : i <= j]
    IN [s EXCEPT !.hovered_button = currently_hovered]

\* _update_button_hovers that keeps a hovered target until it is clicked.
_update_button_hovers_kept(s, cursor_x, cursor_y) ==
    LET hits == {i \in 1..Len(clickable_buttons) :
                    /\ button_state(clickable_buttons[i]) # "disabled"
                    /\ inside(button_geom(clickable_buttons[i]), cursor_x, cursor_y)}
        currently_hovered ==
            IF s.hovered_button # None THEN s.hovered_button
            ELSE IF hits = {} THEN None
            ELSE clickable_buttons[CHOOSE i \in hits : \A j \in hits : i <= j]
    IN [s EXCEPT !.hovered_button = currently_hovered]

_update_button_hovers(s, cursor_x, cursor_y) ==
    LET hits == {i \in 1..Len(clickable_buttons) :
                    /\ button_state(clickable_buttons[i]) # "disabled"
                    /\ inside(button_geom(clickable_buttons[i]), cursor_x, cursor_y)}
        currently_hovered ==
            IF hits = {} THEN None
            ELSE clickable_buttons[CHOOSE i \in hits : \A j \in hits : i <= j]
    IN [s EXCEPT !.hovered_button = currently_hovered]

\* _handle_pinch_click without the pinch_active test.
_handle_pinch_click_unlatched(s, pinch_coords, fault) ==
    IF s.hovered_button # None
    THEN LET s1 == invoke([s EXCEPT !.pinch_active = TRUE], s.hovered_button,
                          fault)
         IN [s1 EXCEPT !.t.click = s.hovered_button,
                       !.pending.reset_pinch = @ + 1]
    ELSE s

\* _handle_pinch_click that latches on every pinch, hovered or not.
_handle_pinch_click_latching(s, pinch_coords, fault) ==
    IF ~s.pinch_active
    THEN LET s1 == [s EXCEPT !.pinch_active = TRUE]
             s2 == IF s.hovered_button # None
                   THEN invoke(s1, s.hovered_button, fault) ELSE s1
         IN [s2 EXCEPT !.t.click = s.hovered_button,
                       !.pending.reset_pinch = @ + 1]
    ELSE s

\* _handle_pinch_click with the command called outside Tk's wrapper: an
\* exception of the command leaves the handler before the cooldown timer
\* is scheduled.
_handle_pinch_click_unprotected(s, pinch_coords, fault) ==
    IF ~s.pinch_active /\ s.hovered_button # None
    THEN LET s1 == [s EXCEPT !.pinch_active = TRUE]
             s2 == invoke(s1, s.hovered_button, fault)
         IN IF s2.t.reported
            THEN [s2 EXCEPT !.t.click = s.hovered_button, !.t.raised = TRUE]
            ELSE [s2 EXCEPT !.t.click = s.hovered_button,
                            !.pending.reset_pinch = @ + 1]
    ELSE s

_handle_pinch_click(s, pinch_coords, fault) ==
    IF ~s.pinch_active /\ s.hovered_button # None
    THEN LET s1 == [s EXCEPT !.pinch_active = TRUE]
             s2 == invoke(s1, s.hovered_button, fault)
         IN [s2 EXCEPT !.t.click = s.hovered_button,
                       !.pending.reset_pinch = @ + 1]
    ELSE s

-----------------------------------------------------------------------------
(* Recognition                                                             *)

Faults == {"none", "detector", "postscript", "eps", "predict", "say", "command"}

\* The cursor oval as canvas.coords last set it, and whether any of it lies
\* in the part of the canvas that canvas.postscript() renders.
cursor_in_view(s) ==
    LET canvas_x == s.smooth[1] - canvas_geom.x
        canvas_y == s.smooth[2] - canvas_geom.y
    IN /\ canvas_x + CURSOR_SIZE > 0 /\ canvas_x - CURSOR_SIZE < canvas_geom.width
       /\ canvas_y + CURSOR_SIZE > 0 /\ canvas_y - CURSOR_SIZE < canvas_geom.height

\* "raise": canvas.postscript() failed, outside the try block;
\* "None":  the EPS file could not be opened, or the bitmap has no contour;
\* "image": a glyph tensor.
_preprocess_canvas_image(s, fault) ==
    IF fault = "postscript" THEN "raise"
    ELSE IF fault = "eps" THEN "None"
    ELSE IF s.ink = <<>> /\ ~cursor_in_view(s) THEN "None"
    ELSE "image"

\* labels_for that ignores the mode.
labels_for_alphabet(mode) == ALPHABET_LABELS

\* The label alphabet of the active mode.
labels_for(mode) ==
    IF mode = "ALPHABETS" THEN ALPHABET_LABELS ELSE NUMBER_LABELS

_recognize_character(s, fault, argmax_of) ==
    LET image == _preprocess_canvas_image(s, fault)
        \* np.argmax(model_to_use.predict(image))
        predicted_index == argmax_of[s.current_mode]
        labels_to_use == labels_for(s.current_mode)
        \* the bitmap holds every ink item now on the canvas
        used == [s EXCEPT
                   !.t.stale_used = \E i \in DOMAIN s.ink : s.ink[i].seen]
        shot == [used EXCEPT
                   !.ink = [i \in DOMAIN s.ink |-> [s.ink[i] EXCEPT !.seen = TRUE]]]
    IN IF image = "raise"
       THEN [s EXCEPT !.t.recog = "raised_postscript", !.t.raised = TRUE]
       ELSE IF image = "None"
       THEN [_clear_drawing_canvas(s) EXCEPT !.t.recog = "abort"]
       ELSE IF fault = "predict"
       THEN [used EXCEPT !.t.recog = "raised_predict", !.t.raised = TRUE]
       ELSE IF predicted_index < Len(labels_to_use)
       THEN IF fault = "say"
            THEN [used EXCEPT !.t.recog = "raised_say", !.t.raised = TRUE,
                              !.t.argmax = predicted_index]
            ELSE [shot EXCEPT
                    !.t.recog = "append", !.t.argmax = predicted_index,
                    !.t.said = labels_to_use[predicted_index + 1],
                    !.sentence_text = Append(@, labels_to_use[predicted_index + 1]),
                    !.pending.clear = @ + 1]
       ELSE [shot EXCEPT !.t.recog = "discard", !.t.argmax = predicted_index,
                         !.pending.clear = @ + 1]

-----------------------------------------------------------------------------
(* The per-tick logic                                                      *)

\* canvas.create_line(last_x, last_y, canvas_x, canvas_y, tags="drawing").
\* No handler reads the coordinates of a line again (only the rasterizer
\* does), so an item keeps none; seen records that the item was in the
\* bitmap of an earlier recognition.
NewLine == [seen |-> FALSE]

\* recognition_due without the last-point test.
recognition_due_level(gesture, last_xy) == gesture = "MOVE"

\* "If we were just drawing and switched to MOVE, it's time to recognize."
recognition_due(gesture, last_xy) == gesture = "MOVE" /\ last_xy # NoCoords

\* lift_pen that also wipes the ink.
lift_pen_wipe(s) == [s EXCEPT !.last = NoCoords, !.ink = <<>>]

\* "Lift the pen" by resetting the last coordinates.
lift_pen(s) == [s EXCEPT !.last = NoCoords]

\* _handle_gestures that draws the segment wherever the cursor is.
_handle_gestures_unclipped(s, tracker_output, fault, argmax_of) ==
    LET gesture == tracker_output.gesture
        win_coords == _map_coords(tracker_output.cursor_coords)
    IN IF win_coords = NoCoords THEN s
       ELSE
       LET smooth_x == ema(win_coords[1], s.smooth[1])
           smooth_y == ema(win_coords[2], s.smooth[2])
           s1 == _update_button_hovers(
                    [s EXCEPT !.smooth = <<smooth_x, smooth_y>>],
                    smooth_x, smooth_y)
           canvas_x == smooth_x - canvas_geom.x
           canvas_y == smooth_y - canvas_geom.y
       IN IF gesture = "DRAW"
          THEN LET s2 == IF s1.last # NoCoords
                         THEN [s1 EXCEPT !.ink = Append(@, NewLine)]
                         ELSE s1
               IN [s2 EXCEPT !.last = <<canvas_x, canvas_y>>]
          ELSE LET s2 == IF recognition_due(gesture, s1.last)
                         THEN _recognize_character(s1, fault, argmax_of)
                         ELSE s1
                   s3 == IF ~s2.t.raised /\ gesture = "PINCH"
                         THEN _handle_pinch_click(s2, win_coords, fault)
                         ELSE s2
               IN IF s3.t.raised THEN s3 ELSE lift_pen(s3)

_handle_gestures(s, tracker_output, fault, argmax_of) ==
    LET gesture == tracker_output.gesture
        win_coords == _map_coords(tracker_output.cursor_coords)
    IN IF win_coords = NoCoords THEN s
       ELSE
       LET smooth_x == ema(win_coords[1], s.smooth[1])
           smooth_y == ema(win_coords[2], s.smooth[2])
           s1 == _update_button_hovers(
                    [s EXCEPT !.smooth = <<smooth_x, smooth_y>>],
                    smooth_x, smooth_y)
           canvas_x == smooth_x - canvas_geom.x
           canvas_y == smooth_y - canvas_geom.y
       IN IF gesture = "DRAW"
          THEN LET s2 == IF /\ s1.last # NoCoords
                            /\ 0 < canvas_x /\ canvas_x < canvas_geom.width
                            /\ 0 < canvas_y /\ canvas_y < canvas_geom.height
                         THEN [s1 EXCEPT !.ink = Append(@, NewLine)]
                         ELSE s1
               IN [s2 EXCEPT !.last = <<canvas_x, canvas_y>>]
          ELSE LET s2 == IF recognition_due(gesture, s1.last)
                         THEN _recognize_character(s1, fault, argmax_of)
                         ELSE s1
                   s3 == IF ~s2.t.raised /\ gesture = "PINCH"
                         THEN _handle_pinch_click(s2, win_coords, fault)
                         ELSE s2
               IN IF s3.t.raised THEN s3 ELSE lift_pen(s3)

\* on_read_failure that gives up instead of retrying.
on_read_failure_stop(s) == s

\* "If the camera fails, try again after a short delay."
on_read_failure(s) == [s EXCEPT !.pending.update = @ + 1]

\* AirPredictApp.update; cap.read() returns ret, the window is mapped or not,
\* the landmark detector reports hands.  t.kind, t.gesture and prev_draw record what
\* the frame held, whatever the handlers then do with it.
update(s, ret, mapped, hands, fault, argmax_of) ==
    IF ~ret
    THEN on_read_failure([s EXCEPT !.t.kind = "read_fail"])
    ELSE LET tracker_output == process_frame(hands, cam_width, cam_height)
             signal == tracker_output.cursor_coords # NoCoords
             s0 == [s EXCEPT
                      !.t.kind = IF signal THEN "signal" ELSE "no_signal",
                      !.t.gesture = IF signal THEN tracker_output.gesture ELSE @,
                      !.prev_draw = IF signal THEN tracker_output.gesture = "DRAW"
                                    ELSE @]
             s1 == IF ~mapped THEN [s EXCEPT !.t.kind = "unmapped"]
                   ELSE IF fault = "detector"
                   THEN [s EXCEPT !.t.kind = "detector_raised", !.t.raised = TRUE]
                   ELSE _handle_gestures(s0, tracker_output, fault, argmax_of)
         \* tts_engine.iterate() pumps the speech queue, which is no part of
         \* the session; then the next update is scheduled.
         IN IF s1.t.raised THEN s1
            ELSE [s1 EXCEPT !.pending.update = @ + 1]

-----------------------------------------------------------------------------
(* Inputs of the model                                                     *)

\* A hand whose index tip is at grid point <<i, j>>.
MkHand(i, j, thumb, up) ==
    [id \in LandmarkIds |->
        CASE id = 8  -> <<i, j>>
          [] id = 4  -> <<i + thumb[1], j + thumb[2]>>
          [] id = 6  -> <<i, IF up[1] THEN j + 2 ELSE j - 2>>
          [] id = 12 -> <<i + 1, j>>
          [] id = 10 -> <<i + 1, IF up[2] THEN j + 2 ELSE j - 2>>
          [] id = 16 -> <<i + 2, j>>
          [] id = 14 -> <<i + 2, IF up[3] THEN j + 2 ELSE j - 2>>
          [] id = 20 -> <<i + 3, j>>
          [] id = 18 -> <<i + 3, IF up[4] THEN j + 2 ELSE j - 2>>]

\* Index-tip positions: one maps into the canvas, one onto the toolbar,
\* far enough from the canvas for the cursor oval to leave it.
TipPositions == {<<22, 26>>, <<60, 26>>}

Poses ==
    { [thumb |-> <<1, 1>>, up |-> <<TRUE, FALSE, FALSE, FALSE>>],   \* pinch
      [thumb |-> <<4, 0>>, up |-> <<TRUE, TRUE, TRUE, TRUE>>],      \* open palm
      [thumb |-> <<4, 0>>, up |-> <<TRUE, FALSE, FALSE, FALSE>>],   \* index only
      [thumb |-> <<4, 0>>, up |-> <<FALSE, FALSE, FALSE, FALSE>>] } \* fist

\* What the landmark detector can report for a frame: no hand, or one hand
\* (HandTracker sets max_num_hands = 1).
Detections ==
    {<<>>} \cup {<<MkHand(p[1], p[2], q.thumb, q.up)>> : p \in TipPositions, q \in Poses}

\* What the two classifiers answer for a bitmap: the arg-max index of the
\* alphabets model and of the numbers model.  Either both name a label, or
\* both are one past the last label of their mode.
ArgMaxes ==
    { [ALPHABETS |-> 10, NUMBERS |-> 3],
      [ALPHABETS |-> 26, NUMBERS |-> 10] }

\* Both classifiers answer with their first label.
FirstLabel == [ALPHABETS |-> 0, NUMBERS |-> 0]

\* The inputs of one update: the result of cap.read(), the detection, the
\* call that raises (if any) and the classifiers' answers.  The detector is
\* made to fail on a frame without a hand.  A fault of the recognition path
\* and the classifiers' answers are met only by a tick that runs a
\* recognition: the inputs for an open-palm frame come with them (due) or
\* without them, and the faults come with the hand over the canvas.
TickInputs ==
    LET pinching(d) ==
            process_frame(d, cam_width, cam_height).gesture = "PINCH"
        open_palm(d) ==
            process_frame(d, cam_width, cam_height).gesture = "MOVE"
        over_canvas(d) ==
            LET at == _map_coords(process_frame(d, cam_width, cam_height).cursor_coords)
            IN inside(canvas_geom, at[1], at[2])
        plain(r, d) ==
            [ret |-> r, hands |-> d, fault |-> "none", k |-> FirstLabel,
             due |-> "-"]
    IN  {plain(FALSE, <<>>)}
        \cup {plain(TRUE, d) : d \in {e \in Detections : ~open_palm(e)}}
        \cup {[plain(TRUE, <<>>) EXCEPT !.fault = "detector"]}
        \cup {[plain(TRUE, d) EXCEPT !.fault = "command"] :
                d \in {e \in Detections : pinching(e)}}
        \cup {[plain(TRUE, d) EXCEPT !.due = "no"] :
                d \in {e \in Detections : open_palm(e)}}
        \cup {[plain(TRUE, d) EXCEPT !.fault = f, !.due = "yes"] :
                d \in {e \in Detections : open_palm(e) /\ over_canvas(e)},
                f \in {"postscript", "eps", "predict", "say"}}
        \cup {[plain(TRUE, d) EXCEPT !.k = k, !.due = "yes"] :
                d \in {e \in Detections : open_palm(e)}, k \in ArgMaxes}

\* An input with a recognition's faults and answers is drawn exactly when
\* the open-palm frame is going to be processed with a draw run open.  The
\* detector fails, if it does, on the first frame it is given.  A command
\* that fails is drawn when the pinch can click.
Drawn(i) ==
    \/ /\ i.due = "-"
       /\ i.fault = "detector" => phase # "running"
       /\ i.fault = "command" => win_mapped /\ ~pinch_active
    \/ i.due = "yes" /\ win_mapped /\ last # NoCoords
    \/ i.due = "no" /\ ~(win_mapped /\ last # NoCoords)

-----------------------------------------------------------------------------
(* The state machine                                                       *)

NoPending == [finish_setup |-> 0, update |-> 0, reset_pinch |-> 0, clear |-> 0]

\* The statements of _initialize_components, by what they assign; "after"
\* is the window.after(0, self._finish_setup) at its end.
WorkerStatements ==
    {"tracker", "cap", "alphabets_model", "numbers_model", "tts_engine",
     "startLoop", "after"}

\* The statement that follows pc, with the hand-off moved before the models
\* are loaded.
next_statement_early(pc) ==
    CASE pc = "tracker"         -> "cap"
      [] pc = "cap"             -> "after"
      [] pc = "after"           -> "alphabets_model"
      [] pc = "alphabets_model" -> "numbers_model"
      [] pc = "numbers_model"   -> "tts_engine"
      [] pc = "tts_engine"      -> "startLoop"
      [] pc = "startLoop"       -> "retired"

\* The statement that follows pc in _initialize_components.
next_statement(pc) ==
    CASE pc = "tracker"         -> "cap"
      [] pc = "cap"             -> "alphabets_model"
      [] pc = "alphabets_model" -> "numbers_model"
      [] pc = "numbers_model"   -> "tts_engine"
      [] pc = "tts_engine"      -> "startLoop"
      [] pc = "startLoop"       -> "after"
      [] pc = "after"           -> "retired"

hands_off(pc) == pc = "after"

\* self.tracker .. self.tts_engine after __init__, and the worker before
\* its first statement.
NoComponents ==
    [worker |-> "tracker", tracker |-> None, cap |-> None,
     alphabets_model |-> None, numbers_model |-> None, tts_engine |-> None]

\* One statement of the worker.  ok tells whether the resource was there:
\* HandTracker(), load_model and pyttsx3.init raise when it was not, which
\* ends the thread; cv2.VideoCapture returns a capture that is not opened.
_initialize_components(c, ok) ==
    LET pc == c.worker
        step == [c EXCEPT !.worker = next_statement(pc)]
        raised == [c EXCEPT !.worker = "raised"]
    IN CASE pc = "tracker" ->
              IF ok THEN [step EXCEPT !.tracker = "ready"] ELSE raised
         [] pc = "cap" ->
              [step EXCEPT !.cap = IF ok THEN "opened" ELSE "unopened"]
         [] pc = "alphabets_model" ->
              IF ok THEN [step EXCEPT !.alphabets_model = "loaded"] ELSE raised
         [] pc = "numbers_model" ->
              IF ok THEN [step EXCEPT !.numbers_model = "loaded"] ELSE raised
         [] pc = "tts_engine" ->
              IF ok THEN [step EXCEPT !.tts_engine = "idle"] ELSE raised
         [] pc = "startLoop" -> [step EXCEPT !.tts_engine = "in_loop"]
         [] pc = "after" -> step

\* self.cap.isOpened()
isOpened(c) == c.cap = "opened"

\* on_close without the two tests: endLoop raises "run loop not started"
\* when the engine is not in its loop.
on_close_unguarded(c) ==
    IF c.tts_engine # "in_loop"
    THEN [comp |-> c, raised |-> TRUE]
    ELSE [comp |-> [c EXCEPT !.tts_engine = "stopped",
                             !.cap = IF @ = "opened" THEN "released" ELSE @],
          raised |-> FALSE]

\* AirPredictApp.on_close: ends the speech loop if it runs, releases the
\* camera if it is open.
on_close(c) ==
    [comp |-> [c EXCEPT !.tts_engine = IF @ = "in_loop" THEN "stopped" ELSE @,
                        !.cap = IF isOpened(c) THEN "released" ELSE @],
     raised |-> FALSE]

\* The application's fields after __init__.
Constructed ==
    /\ phase = "loading"
    /\ comp = NoComponents
    /\ win_mapped = FALSE
    /\ sentence_text = <<>>
    /\ last = NoCoords
    /\ smooth = <<0, 0>>
    /\ pinch_active = FALSE
    /\ hovered_button = None
    /\ current_mode = "ALPHABETS"
    /\ ink = <<>>
    /\ pending = NoPending
    /\ prev_draw = FALSE
    /\ ev = [op |-> "idle"] @@ Quiet

\* No function is under separate examination in a session.
NoProbe == [op |-> "none", in |-> <<>>, out |-> <<>>, n |-> 0]

Init ==
    /\ Constructed
    /\ probe = NoProbe

InBounds(s) ==
    /\ Len(s.sentence_text) <= MaxSentence
    /\ Len(s.ink) <= MaxInk
    /\ s.pending.clear <= MaxClearTimers

\* The step's result becomes the next state.
Commit(s, op) ==
    /\ InBounds(s)
    /\ sentence_text' = s.sentence_text
    /\ last' = s.last
    /\ smooth' = s.smooth
    /\ pinch_active' = s.pinch_active
    /\ hovered_button' = s.hovered_button
    /\ current_mode' = s.current_mode
    /\ ink' = s.ink
    /\ pending' = s.pending
    /\ prev_draw' = s.prev_draw
    /\ ev' = [op |-> op] @@ s.t
    /\ probe' = probe

\* The worker thread runs its next statement: it loads the detector, the
\* camera, the models and the speech engine, then schedules _finish_setup
\* on the main thread.  The main thread may map the window in between.
InitializeComponents ==
    /\ phase \in {"loading", "setup_pending"}
    /\ comp.worker \in WorkerStatements
    /\ \E ok \in BOOLEAN :
          /\ comp' = _initialize_components(comp, ok)
          /\ phase' = IF hands_off(comp.worker) THEN "setup_pending" ELSE phase
          /\ Commit([Session EXCEPT !.pending.finish_setup =
                         IF hands_off(comp.worker) THEN @ + 1 ELSE @],
                    "worker")
    /\ UNCHANGED win_mapped

\* _finish_setup builds the UI, binds the keys and runs the first update.
FinishSetup ==
    /\ pending.finish_setup > 0
    /\ phase' = "running"
    /\ \E i \in TickInputs :
          /\ Drawn(i)
          /\ i.ret => isOpened(comp)
          /\ Commit(update([Session EXCEPT !.pending.finish_setup = @ - 1],
                           i.ret, win_mapped, i.hands, i.fault, i.k),
                    "update")
    /\ UNCHANGED <<win_mapped, comp>>

\* The window is drawn: winfo_width() becomes larger than 1.
WindowMap ==
    /\ ~win_mapped
    /\ win_mapped' = TRUE
    /\ phase # "destroyed"
    /\ Commit(Session, "idle")
    /\ UNCHANGED <<phase, comp>>

\* A pending update callback fires.
Tick ==
    /\ pending.update > 0
    /\ \E i \in TickInputs :
          /\ Drawn(i)
          /\ i.ret => isOpened(comp)
          /\ Commit(update([Session EXCEPT !.pending.update = @ - 1],
                           i.ret, win_mapped, i.hands, i.fault, i.k),
                    "update")
    /\ UNCHANGED <<phase, win_mapped, comp>>

\* A pending reset_pinch callback fires.
ResetPinch ==
    /\ pending.reset_pinch > 0
    /\ Commit(reset_pinch([Session EXCEPT !.pending.reset_pinch = @ - 1]),
              "reset_pinch")
    /\ UNCHANGED <<phase, win_mapped, comp>>

\* A pending _clear_drawing_canvas callback fires.
ClearCanvas ==
    /\ pending.clear > 0
    /\ Commit(_clear_drawing_canvas([Session EXCEPT !.pending.clear = @ - 1]),
              "idle")
    /\ UNCHANGED <<phase, win_mapped, comp>>

\* Key bindings and mouse clicks on the buttons.
KeySpace ==
    /\ phase = "running"
    /\ Commit(on_space_press(Session), "idle")
    /\ UNCHANGED <<phase, win_mapped, comp>>

KeyBackSpace ==
    /\ phase = "running"
    /\ Commit(on_backspace_press(Session), "idle")
    /\ UNCHANGED <<phase, win_mapped, comp>>

KeyClear ==
    /\ phase = "running"
    /\ Commit(on_clear_press(Session), "idle")
    /\ UNCHANGED <<phase, win_mapped, comp>>

KeySwitchMode ==
    /\ phase = "running"
    /\ Commit(on_switch_mode(Session), "idle")
    /\ UNCHANGED <<phase, win_mapped, comp>>

\* on_close has run before.
Closed == comp.tts_engine = "stopped" \/ comp.cap = "released"

\* <q> is bound to on_close; the window stays.  t.kind records whether
\* the request is the first.
KeyQuit ==
    /\ phase = "running"
    /\ LET r == on_close(comp)
       IN /\ comp' = r.comp
          /\ Commit([Session EXCEPT
                        !.t.raised = r.raised,
                        !.t.kind = IF Closed THEN "again" ELSE "first"],
                    "on_close")
    /\ UNCHANGED <<phase, win_mapped>>

Next ==
    \/ InitializeComponents
    \/ FinishSetup
    \/ WindowMap
    \/ Tick
    \/ ResetPinch
    \/ ClearCanvas
    \/ KeySpace
    \/ KeyBackSpace
    \/ KeyClear
    \/ KeySwitchMode

Spec == Init /\ [][Next]_vars

\* Tk runs every callback that window.after scheduled once its delay has
\* passed: a pending reset_pinch fires.
LiveSpec == Init /\ [][Next]_vars /\ WF_vars(ResetPinch)

\* The session until it is asked to close is Spec; LifeSpec adds the two
\* ways of closing.

\* The window's close button in the __main__ block: on_close, then
\* root.destroy(); mainloop returns and the process ends, with the pending
\* callbacks and the worker, a daemon thread.
CloseWindow ==
    /\ phase # "destroyed"
    /\ phase' = "destroyed"
    /\ LET r == on_close(comp)
       IN /\ comp' = r.comp
          /\ Commit([Session EXCEPT
                        !.t.raised = r.raised,
                        !.t.kind = IF Closed THEN "again" ELSE "first",
                        !.pending = NoPending],
                    "on_close")
    /\ UNCHANGED win_mapped

LifeNext ==
    \/ Next
    \/ KeyQuit
    \/ CloseWindow

\* The session with its end.
LifeSpec == Init /\ [][LifeNext]_vars

-----------------------------------------------------------------------------
(* _preprocess_canvas_image from step 4 on: the bitmap of the canvas as a  *)
(* sequence of rows of grey values, img[y][x] with y and x from 1.         *)

\* The side of the bitmap that stands for the rendered canvas.
RASTER_SIDE == 3

RECURSIVE SumOver(_, _, _)
\* The sum of f[i] for i in lo..hi.
SumOver(f, lo, hi) == IF lo > hi THEN 0 ELSE f[lo] + SumOver(f, lo + 1, hi)

Max(a, b) == IF a >= b THEN a ELSE b
Min(a, b) == IF a <= b THEN a ELSE b

\* cv2.bitwise_not on 8-bit pixels.
bitwise_not(img) ==
    [y \in DOMAIN img |-> [x \in DOMAIN img[y] |-> WHITE - img[y][x]]]

\* The non-zero pixels, as <<x, y>>.
Foreground(img_np) ==
    {c \in (1..Len(img_np[1])) \X (1..Len(img_np)) : img_np[c[2]][c[1]] # 0}

RECURSIVE Connected(_, _)
\* The 8-connected set of foreground pixels around the set seed.
Connected(seed, fg) ==
    LET grown == seed \cup {c \in fg : \E d \in seed :
                               /\ c[1] - d[1] \in {-1, 0, 1}
                               /\ c[2] - d[2] \in {-1, 0, 1}}
    IN IF grown = seed THEN seed ELSE Connected(grown, fg)

\* cv2.findContours(img_np, RETR_EXTERNAL, CHAIN_APPROX_SIMPLE): one outer
\* contour for each connected component, here the component itself.
findContours(img_np) ==
    {Connected({c}, Foreground(img_np)) : c \in Foreground(img_np)}

\* cv2.boundingRect: x and y count from 0.
boundingRect(contour) ==
    LET xs == {c[1] : c \in contour}
        ys == {c[2] : c \in contour}
        x1 == CHOOSE v \in xs : \A u \in xs : v <= u
        x2 == CHOOSE v \in xs : \A u \in xs : v >= u
        y1 == CHOOSE v \in ys : \A u \in ys : v <= u
        y2 == CHOOSE v \in ys : \A u \in ys : v >= u
    IN [x |-> x1 - 1, y |-> y1 - 1, w |-> x2 - x1 + 1, h |-> y2 - y1 + 1]

\* square_padding that gives the odd remainder to the leading side.
square_padding_leading(w, h) ==
    LET side_len == Max(w, h)
        padding_bottom == (side_len - h) \div 2
        padding_right == (side_len - w) \div 2
    IN [top |-> side_len - h - padding_bottom, bottom |-> padding_bottom,
        left |-> side_len - w - padding_right, right |-> padding_right]

\* Step 7: the padding that makes the crop square.
square_padding(w, h) ==
    LET side_len == Max(w, h)
        padding_top == (side_len - h) \div 2
        padding_left == (side_len - w) \div 2
    IN [top |-> padding_top, bottom |-> side_len - h - padding_top,
        left |-> padding_left, right |-> side_len - w - padding_left]

\* cv2.copyMakeBorder(img, top, bottom, left, right, BORDER_CONSTANT, value=0)
copyMakeBorder(img, top, bottom, left, right) ==
    LET h == Len(img)
        w == Len(img[1])
    IN [y \in 1..(top + h + bottom) |->
          [x \in 1..(left + w + right) |->
              IF /\ top < y /\ y <= top + h
                 /\ left < x /\ x <= left + w
              THEN img[y - top][x - left] ELSE 0]]

\* cv2.resize(img, (n, n), interpolation=INTER_AREA) of a square image: each
\* result pixel is the mean of the source pixels weighted by the area they
\* share with it, rounded to the nearest integer.
resize(img, n) ==
    LET s == Len(img)
        \* what source index i and result index r share, in units of 1/(s*n)
        share(r, i) == Max(0, Min(i * n, r * s) - Max((i - 1) * n, (r - 1) * s))
        row(r, c) == [i \in 1..s |->
                        share(r, i) * SumOver([j \in 1..s |-> share(c, j) * img[i][j]], 1, s)]
    IN [r \in 1..n |->
          [c \in 1..n |-> (2 * SumOver(row(r, c), 1, s) + s * s) \div (2 * s * s)]]

\* copyMakeBorder with a border of half the width.
add_border_narrow(img) ==
    copyMakeBorder(img, GLYPH_BORDER \div 2, GLYPH_BORDER \div 2,
                   GLYPH_BORDER \div 2, GLYPH_BORDER \div 2)

\* Step 8, second half: the 4-pixel border.
add_border(img) ==
    copyMakeBorder(img, GLYPH_BORDER, GLYPH_BORDER, GLYPH_BORDER, GLYPH_BORDER)

\* Step 6: the rectangle of the crop, taken from contours[0].
crop_rect(contours, first) == boundingRect(first)

\* Steps 4 to 10 on the grey-scale bitmap img, with first the contour that
\* findContours lists first.  A pixel of the result is <<p, 255>>, the
\* value p / 255.0.
normalize_glyph(img, first) ==
    LET img_np == bitwise_not(img)
        contours == findContours(img_np)
        rect == crop_rect(contours, first)
        char_img == [y \in 1..rect.h |-> [x \in 1..rect.w |-> img_np[rect.y + y][rect.x + x]]]
        pad == square_padding(rect.w, rect.h)
        squared == copyMakeBorder(char_img, pad.top, pad.bottom, pad.left, pad.right)
        final_img == add_border(resize(squared, GLYPH_SIZE))
    IN [none |-> FALSE, rect |-> rect, pad |-> pad,
        shape |-> <<1, Len(final_img), Len(final_img[1]), 1>>,
        final_img |-> [y \in DOMAIN final_img |->
                         [x \in DOMAIN final_img[y] |-> <<final_img[y][x], WHITE>>]]]

\* "if not contours: return None"
NoGlyph ==
    [none |-> TRUE, rect |-> [x |-> 0, y |-> 0, w |-> 0, h |-> 0],
     pad |-> [top |-> 0, bottom |-> 0, left |-> 0, right |-> 0],
     shape |-> <<>>, final_img |-> <<>>]

-----------------------------------------------------------------------------
(* The gesture classifier, the coordinate mapping and the smoothing step   *)
(* examined on their own: the input is drawn at the start, the steps apply *)
(* the function to it.                                                     *)

\* A hand with the index tip at <<22, 26>>, the thumb tip at the offset
\* thumb from it and the proximal joint of finger k at rel[k] below its tip.
ProbeHand(thumb, rel) ==
    [id \in LandmarkIds |->
        CASE id = 8  -> <<22, 26>>
          [] id = 4  -> <<22 + thumb[1], 26 + thumb[2]>>
          [] id = 6  -> <<22, 26 + rel[1]>>
          [] id = 12 -> <<23, 26>>
          [] id = 10 -> <<23, 26 + rel[2]>>
          [] id = 16 -> <<24, 26>>
          [] id = 14 -> <<24, 26 + rel[3]>>
          [] id = 20 -> <<25, 26>>
          [] id = 18 -> <<25, 26 + rel[4]>>]

\* Thumb offsets: 14, 28, 30, 30 and 40 pixels from the index tip on a
\* frame 640 wide.
ProbeThumbs == {<<1, 1>>, <<2, 2>>, <<3, 0>>, <<0, 3>>, <<4, 0>>}

ProbeHands ==
    {ProbeHand(thumb, rel) : thumb \in ProbeThumbs, rel \in [1..4 -> {-1, 0, 1}]}

\* Camera and display sizes of one axis: the two of the session, a camera
\* exactly twice the margin wide and one narrower than that.
ProbeScreens ==
    { [cam_dim |-> cam_width,  win_dim |-> win_width],
      [cam_dim |-> cam_height, win_dim |-> win_height],
      [cam_dim |-> 2 * FRAME_PADDING, win_dim |-> win_width],
      [cam_dim |-> 160, win_dim |-> win_width] }

\* Raw coordinates on a camera axis: the edges, the middle and the
\* neighbourhood of both margins.
ProbeRaws(cam_dim) ==
    LET lo == FRAME_PADDING
        hi == cam_dim - FRAME_PADDING
    IN {0, 50, lo - 1, lo, lo + 1, cam_dim \div 2,
        hi - 1, hi, hi + 1, cam_dim - 50, cam_dim}

ProbeInputs ==
    {[op |-> "process_frame", in |-> hand,
      out |-> [gesture |-> "NONE", cursor_coords |-> NoCoords], n |-> 0] :
        hand \in ProbeHands}
    \cup
    UNION {{[op |-> "map_axis",
             in |-> [a |-> a, b |-> b, cam_dim |-> sc.cam_dim, win_dim |-> sc.win_dim],
             out |-> <<0, 0>>, n |-> 0] :
               a \in ProbeRaws(sc.cam_dim), b \in ProbeRaws(sc.cam_dim)} :
           sc \in ProbeScreens}
    \cup
    {[op |-> "ema", in |-> m, out |-> s, n |-> 0] :
        m \in 0..win_width, s \in 0..win_width}
    \cup
    {[op |-> "_update_button_hovers", in |-> [at |-> <<x, y>>, was |-> b],
      out |-> b, n |-> 0] :
        x \in 0..win_width, y \in 0..win_height,
        b \in {None} \cup {clickable_buttons[i] : i \in 1..Len(clickable_buttons)}}
    \cup
    {[op |-> "process_frame_hands", in |-> <<first[1], second[1]>>,
      out |-> [gesture |-> "NONE", cursor_coords |-> NoCoords], n |-> 0] :
        first \in Detections \ {<<>>}, second \in Detections \ {<<>>}}
    \cup
    {[op |-> "square_padding", in |-> [w |-> w, h |-> h],
      out |-> [top |-> 0, bottom |-> 0, left |-> 0, right |-> 0], n |-> 0] :
        w \in 1..MaxCrop, h \in 1..MaxCrop}
    \cup
    {[op |-> "normalize_glyph", in |-> img, out |-> NoGlyph, n |-> 0] :
        img \in [1..RASTER_SIDE -> [1..RASTER_SIDE -> {0, WHITE}]]}

ProbeInit ==
    /\ Constructed
    /\ probe \in ProbeInputs

\* tracker_output = self.hand_tracker.process_frame(frame) on a frame in
\* which the detector found the hand.
ProcessFrame ==
    /\ probe.op = "process_frame"
    /\ probe.n = 0
    /\ probe' = [probe EXCEPT
                   !.out = process_frame(<<probe.in>>, cam_width, cam_height),
                   !.n = 1]
    /\ UNCHANGED session_vars

\* One axis of _map_coords, applied to two raw coordinates.
MapCoords ==
    /\ probe.op = "map_axis"
    /\ probe.n = 0
    /\ probe' = [probe EXCEPT
                   !.out = <<map_axis(probe.in.a, probe.in.cam_dim, probe.in.win_dim),
                             map_axis(probe.in.b, probe.in.cam_dim, probe.in.win_dim)>>,
                   !.n = 1]
    /\ UNCHANGED session_vars

\* One tick of the smoothing with the same mapped coordinate.
SmoothTick ==
    /\ probe.op = "ema"
    /\ probe.n < MaxSmoothTicks
    /\ probe' = [probe EXCEPT !.out = ema(probe.in, probe.out), !.n = @ + 1]
    /\ UNCHANGED session_vars

\* self._update_button_hovers(self.smooth_x, self.smooth_y) with the cursor
\* at any point of the window and any target hovered before.
UpdateButtonHovers ==
    /\ probe.op = "_update_button_hovers"
    /\ probe.n = 0
    /\ probe' = [probe EXCEPT
                   !.out = _update_button_hovers(
                              [Session EXCEPT !.smooth = probe.in.at,
                                              !.hovered_button = probe.in.was],
                              probe.in.at[1], probe.in.at[2]).hovered_button,
                   !.n = 1]
    /\ UNCHANGED session_vars

\* process_frame of a HandTracker built with max_hands = 2, on a frame in
\* which the detector found two hands.
ProcessFrameHands ==
    /\ probe.op = "process_frame_hands"
    /\ probe.n = 0
    /\ probe' = [probe EXCEPT
                   !.out = process_frame(probe.in, cam_width, cam_height),
                   !.n = 1]
    /\ UNCHANGED session_vars

\* Step 7 for a crop of any width and height.
SquarePadding ==
    /\ probe.op = "square_padding"
    /\ probe.n = 0
    /\ probe' = [probe EXCEPT !.out = square_padding(probe.in.w, probe.in.h),
                              !.n = 1]
    /\ UNCHANGED session_vars

\* Steps 4 to 10 of _preprocess_canvas_image on a bitmap; the order in which
\* findContours lists the contours is not specified, so any of them can be
\* contours[0].
NormalizeGlyph ==
    /\ probe.op = "normalize_glyph"
    /\ probe.n = 0
    /\ LET contours == findContours(bitwise_not(probe.in))
       IN IF contours = {}
          THEN probe' = [probe EXCEPT !.out = NoGlyph, !.n = 1]
          ELSE \E first \in contours :
                  probe' = [probe EXCEPT !.out = normalize_glyph(probe.in, first),
                                         !.n = 1]
    /\ UNCHANGED session_vars

ProbeNext ==
    \/ ProcessFrame
    \/ MapCoords
    \/ SmoothTick
    \/ UpdateButtonHovers
    \/ ProcessFrameHands
    \/ SquarePadding
    \/ NormalizeGlyph

ProbeSpec == ProbeInit /\ [][ProbeNext]_vars

-----------------------------------------------------------------------------
(* Pinch clicks                                                            *)

\* C1: at most one click per cooldown window: from the tick that commits a
\* pinch-click until the cooldown timer it scheduled has fired, no step
\* commits a further click.
C1_OneClickPerCooldown ==
    [][pending.reset_pinch > 0 => ev'.click = None]_vars

\* A PINCH tick over a hovered enabled button inside the cooldown window
\* that committed nothing.
C1_Witness ==
    /\ ev.kind = "signal" /\ ev.gesture = "PINCH"
    /\ hovered_button # None
    /\ pending.reset_pinch > 0
    /\ ev.click = None

\* C2: once set, the pinch latch is eventually cleared by its cooldown, and
\* a PINCH tick over a hovered enabled button that finds the latch clear
\* commits a click on that button.
C2_LatchClearedThenClickAgain ==
    /\ pinch_active ~> ~pinch_active
    /\ [][(/\ ev'.kind = "signal" /\ ev'.gesture = "PINCH"
           /\ hovered_button' # None /\ ~pinch_active)
          => (ev'.click = hovered_button' /\ pinch_active')]_vars

\* The cooldown has just cleared a latch that a click had set.
C2_Witness ==
    /\ ev.op = "reset_pinch"
    /\ ~pinch_active
    /\ pending.reset_pinch = 0
    /\ current_mode = "NUMBERS"

-----------------------------------------------------------------------------
(* Recognition trigger                                                     *)

\* C3: recognition is edge-triggered: a tick with hand signal triggers a
\* recognition if and only if its gesture is MOVE and the gesture of the
\* most recent earlier tick with hand signal was DRAW.
C3_EdgeTriggered ==
    [][ev'.kind = "signal" =>
         ((ev'.recog # "none") <=>
          (ev'.gesture = "MOVE" /\ prev_draw))]_vars

\* A MOVE tick right after a DRAW tick ran a recognition.
C3_Witness ==
    /\ ev.kind = "signal" /\ ev.gesture = "MOVE"
    /\ ev.recog = "append"

-----------------------------------------------------------------------------
(* Ink                                                                     *)

C5_InkUsedOnce == ~ev.stale_used

-----------------------------------------------------------------------------
(* Ticks without effect                                                    *)

\* C6: a tick on which no hand is detected changes none of the smoothed
\* cursor, the hovered button, the last draw point, the ink, the pinch
\* latch, the mode and the sentence.
C6_NoSignalNoOp ==
    [][ev'.kind = "no_signal" =>
         UNCHANGED <<smooth, hovered_button, last, ink, pinch_active,
                     current_mode, sentence_text>>]_vars

\* A tick without a hand in the middle of a draw run, with ink on the
\* canvas and a button latched.
C6_Witness ==
    /\ ev.kind = "no_signal"
    /\ last # NoCoords
    /\ ink # <<>>
    /\ pinch_active

\* C7: after every tick, whatever raised in it, a next tick is scheduled.
C7_LoopAlive == phase = "running" => pending.update > 0

\* C8: a tick whose camera read fails changes no session state, raises
\* nothing and schedules the next tick.
C8_ReadFailureRetried ==
    [][ev'.kind = "read_fail" =>
         /\ UNCHANGED <<smooth, hovered_button, last, ink, pinch_active,
                        current_mode, sentence_text>>
         /\ ~ev'.raised
         /\ pending'.update > 0]_vars

\* A failed read right after another failed read, in the middle of a draw
\* run.
C8_Witness ==
    /\ ev.kind = "read_fail"
    /\ pending.update > 0
    /\ last # NoCoords
    /\ ink # <<>>

-----------------------------------------------------------------------------
(* Recognition outcomes                                                    *)

\* C9: a recognition triggered with no ink segment on the canvas aborts:
\* the classifier is not invoked, the sentence is unchanged, nothing is
\* spoken.
C9_EmptyInkAborts ==
    [][(ev'.recog # "none" /\ ink = <<>>) =>
         /\ ev'.recog \in {"abort", "raised_postscript"}
         /\ sentence_text' = sentence_text
         /\ ev'.said = ""]_vars

\* C10: an arg-max index outside the label alphabet of the active mode
\* (26 letters, 10 digits) is discarded: the sentence is unchanged and
\* nothing is spoken.
C10_OutOfAlphabetDiscarded ==
    [][(ev'.argmax >= (IF current_mode = "ALPHABETS" THEN 26 ELSE 10)) =>
         /\ ev'.recog = "discard"
         /\ sentence_text' = sentence_text
         /\ ev'.said = ""]_vars

\* In digit mode the classifier answered 10 and the answer was dropped.
C10_Witness ==
    /\ ev.recog = "discard"
    /\ ev.argmax = 10
    /\ current_mode = "NUMBERS"

C12_PinchTakesPrecedence ==
    (probe.op = "process_frame" /\ probe.n = 1) =>
        LET dx == probe.in[8][1] - probe.in[4][1]
            dy == probe.in[8][2] - probe.in[4][2]
            near == (dx * dx + dy * dy) * cam_width * cam_width
                      < PINCH_THRESHOLD * PINCH_THRESHOLD * LM_GRID * LM_GRID
        IN near => probe.out.gesture = "PINCH"

\* An open palm (all four fingers up) with the thumb 28 pixels from the
\* index tip was classified PINCH.
C12_Witness ==
    /\ probe.op = "process_frame"
    /\ probe.n = 1
    /\ probe.in[4] = <<24, 28>>
    /\ \A id \in {6, 10, 14, 18} : probe.in[id][2] > 26
    /\ probe.out.gesture = "PINCH"

\* C13: at or beyond the pinch threshold the gesture is DRAW when exactly
\* the index finger is up, MOVE when all four fingers are up and NONE for
\* every other combination; a finger is up exactly when its tip's y is
\* strictly less than its proximal joint's y.
C13_FingerTable ==
    (probe.op = "process_frame" /\ probe.n = 1) =>
        LET dx == probe.in[8][1] - probe.in[4][1]
            dy == probe.in[8][2] - probe.in[4][2]
            near == (dx * dx + dy * dy) * cam_width * cam_width
                      < PINCH_THRESHOLD * PINCH_THRESHOLD * LM_GRID * LM_GRID
            index == probe.in[8][2] < probe.in[6][2]
            middle == probe.in[12][2] < probe.in[10][2]
            ring == probe.in[16][2] < probe.in[14][2]
            pinky == probe.in[20][2] < probe.in[18][2]
        IN ~near =>
             probe.out.gesture =
                IF index /\ middle /\ ring /\ pinky THEN "MOVE"
                ELSE IF index /\ ~middle /\ ~ring /\ ~pinky THEN "DRAW"
                ELSE "NONE"

\* The thumb is exactly 30 pixels away, the index finger is up and the
\* middle finger's tip is level with its joint (so it is down): DRAW.
C13_Witness ==
    /\ probe.op = "process_frame"
    /\ probe.n = 1
    /\ probe.in[4] = <<25, 26>>
    /\ probe.in[6][2] > probe.in[8][2]
    /\ probe.in[10][2] = probe.in[12][2]
    /\ probe.in[14][2] < probe.in[16][2]
    /\ probe.in[18][2] < probe.in[20][2]
    /\ probe.out.gesture = "DRAW"

\* C14: with the same mapped coordinate fed on every tick the smoothed
\* coordinate comes to equal it and then stays equal to it: a tick that
\* leaves the smoothed coordinate where it was finds it on the input, and a
\* tick that finds it on the input leaves it there.
C14_SmoothingReachesInput ==
    [][(probe.op = "ema" /\ probe'.n = probe.n + 1) =>
          /\ probe'.out = probe.out => probe.out = probe.in
          /\ probe.out = probe.in => probe'.out = probe.in]_vars

\* C15 as stated: every mapped axis lies in [0, display_dim], raw values
\* at or below the margin map to 0 and raw values at or above the camera
\* dimension less the margin map to display_dim, for every camera size.
C15_MarginsForEveryCamera ==
    (probe.op = "map_axis" /\ probe.n = 1) =>
        /\ probe.out[1] \in 0..probe.in.win_dim
        /\ probe.in.a <= FRAME_PADDING => probe.out[1] = 0
        /\ probe.in.a >= probe.in.cam_dim - FRAME_PADDING
              => probe.out[1] = probe.in.win_dim

\* C15, amended: every mapped axis lies in [0, display_dim] for every
\* camera size; on a camera wider than twice the margin raw values at or
\* below the margin map to 0 and raw values at or above the camera
\* dimension less the margin map to display_dim; on a camera not wider
\* than twice the margin raw values above the camera dimension less the
\* margin map to display_dim, also when they are below the margin.
C15_MarginsForWideCamera ==
    (probe.op = "map_axis" /\ probe.n = 1) =>
        /\ probe.out[1] \in 0..probe.in.win_dim
        /\ probe.in.cam_dim > 2 * FRAME_PADDING =>
              /\ probe.in.a <= FRAME_PADDING => probe.out[1] = 0
              /\ probe.in.a >= probe.in.cam_dim - FRAME_PADDING
                    => probe.out[1] = probe.in.win_dim
        /\ probe.in.cam_dim <= 2 * FRAME_PADDING =>
              (probe.in.a > probe.in.cam_dim - FRAME_PADDING
                 => probe.out[1] = probe.in.win_dim)

\* On the 640 wide camera the raw coordinate at the margin maps to 0 and
\* the one at the far margin to the display's width.
C15_Witness ==
    /\ probe.op = "map_axis"
    /\ probe.n = 1
    /\ probe.in.cam_dim = cam_width
    /\ probe.in.a = FRAME_PADDING
    /\ probe.in.b = cam_width - FRAME_PADDING
    /\ probe.out = <<0, win_width>>

\* C16: the mapping is monotonic on every axis, and clamping a mapped
\* coordinate to [0, display_dim] again leaves it unchanged.
C16_MonotonicAndClampIdempotent ==
    (probe.op = "map_axis" /\ probe.n = 1) =>
        /\ probe.in.a <= probe.in.b => probe.out[1] <= probe.out[2]
        /\ clip(probe.out[1], 0, probe.in.win_dim) = probe.out[1]

\* Two raw coordinates between the margins were mapped to two different
\* display coordinates in the same order.
C16_Witness ==
    /\ probe.op = "map_axis"
    /\ probe.n = 1
    /\ probe.in.cam_dim = cam_width
    /\ FRAME_PADDING < probe.in.a
    /\ probe.in.a < probe.in.b
    /\ probe.in.b < cam_width - FRAME_PADDING
    /\ 0 < probe.out[1]
    /\ probe.out[1] < probe.out[2]
    /\ probe.out[2] < win_width

\* C17: the hovered target is the first enabled target, in the order mode
\* switch, space, backspace, clear, suggestion 1, 2, 3, whose rectangle
\* strictly contains the smoothed cursor, and none when there is no such
\* target; a disabled target is never hovered.
C17_FirstEnabledTargetHovered ==
    (probe.op = "_update_button_hovers" /\ probe.n = 1) =>
        LET order == <<"btn_switch_mode", "btn_space", "btn_backspace",
                       "btn_clear", "suggestion0", "suggestion1", "suggestion2">>
            x == probe.in.at[1]
            y == probe.in.at[2]
            hit(i) ==
                LET g == button_geom(order[i])
                IN /\ button_state(order[i]) # "disabled"
                   /\ g.x < x /\ x < g.x + g.width
                   /\ g.y < y /\ y < g.y + g.height
        IN /\ (\A i \in 1..7 : ~hit(i)) => probe.out = None
           /\ \A i \in 1..7 :
                 (hit(i) /\ \A j \in 1..(i - 1) : ~hit(j)) => probe.out = order[i]
           /\ probe.out # None => button_state(probe.out) # "disabled"

\* The cursor moved from the space button onto the disabled first
\* suggestion button: nothing is hovered.
C17_Witness ==
    /\ probe.op = "_update_button_hovers"
    /\ probe.n = 1
    /\ probe.in.was = "btn_space"
    /\ inside(button_geom("suggestion0"), probe.in.at[1], probe.in.at[2])
    /\ probe.out = None

\* C18: within a tick the hover is recomputed before the pinch click is
\* evaluated: every committed click activates the enabled target whose
\* rectangle contains the smoothed cursor of that same tick.
C18_ClickUnderCursor ==
    [][ev'.click # None =>
          /\ ev'.kind = "signal"
          /\ ev'.gesture = "PINCH"
          /\ ev'.click = hovered_button'
          /\ button_state(ev'.click) # "disabled"
          /\ inside(button_geom(ev'.click), smooth'[1], smooth'[2])]_vars

\* The pinch tick that carried the cursor from x = 13 or 14, outside the
\* mode switch, to x = 15, inside it, clicked the mode switch.
C18_Witness ==
    /\ ev.click = "btn_switch_mode"
    /\ smooth[1] = 15
    /\ current_mode = "NUMBERS"

\* C19: the clear action (the 'c' key, a click or a pinch click on Clear)
\* leaves the sentence empty, and the backspace action removes exactly the
\* last character of the sentence (an empty sentence stays empty).
C19_ClearAndBackspaceTruncate ==
    [][/\ (KeyClear \/ ev'.click = "btn_clear") => sentence_text' = <<>>
       /\ (KeyBackSpace \/ ev'.click = "btn_backspace") =>
             sentence_text' = IF sentence_text = <<>> THEN <<>>
                              ELSE SubSeq(sentence_text, 1, Len(sentence_text) - 1)]_vars

\* C20: when space is pressed the suggestion slots are recomputed from the
\* sequence model: with probabilities peaking at the vocabulary indices 3,
\* 7 and 1, in that order, the three slots show word(3), word(7) and
\* word(1) and are enabled.
C20_SuggestionsRecomputedOnSpace ==
    [][KeySpace =>
          LET top3 == <<3, 7, 1>>
              word(i) == CASE i = 3 -> "word3" [] i = 7 -> "word7" [] i = 1 -> "word1"
              slot == <<"suggestion0", "suggestion1", "suggestion2">>
          IN \A i \in 1..3 :
                /\ suggestion_text(slot[i]) = word(top3[i])
                /\ button_state(slot[i]) = "normal"]_vars

\* C26: a DRAW tick adds a segment to the ink if and only if a last draw
\* point exists and the current point lies strictly inside the canvas on
\* both axes, and it sets the last draw point to the current point in
\* either case, so the first DRAW tick of a run adds no segment.
C26_SegmentOnlyInsideCanvas ==
    [][(ev'.kind = "signal" /\ ev'.gesture = "DRAW") =>
          LET canvas_x == smooth'[1] - canvas_geom.x
              canvas_y == smooth'[2] - canvas_geom.y
              within == /\ 0 < canvas_x /\ canvas_x < canvas_geom.width
                        /\ 0 < canvas_y /\ canvas_y < canvas_geom.height
          IN /\ (last # NoCoords /\ within) => ink' = Append(ink, NewLine)
             /\ ~(last # NoCoords /\ within) => ink' = ink
             /\ last' = <<canvas_x, canvas_y>>]_vars

\* A DRAW tick of a running draw run found the cursor between the canvas
\* and the toolbar: the last point moved there and no segment was added.
C26_Witness ==
    /\ ev.kind = "signal"
    /\ ev.gesture = "DRAW"
    /\ smooth = <<8, 2>>
    /\ last = <<7, 1>>
    /\ ink = <<>>
    /\ sentence_text = <<"K">>

\* C27: after every signal tick whose gesture is MOVE, NONE or PINCH the
\* last draw point is none.
C27_PenLifted ==
    [][(ev'.kind = "signal" /\ ev'.gesture \in {"MOVE", "NONE", "PINCH"})
          => last' = NoCoords]_vars

\* C28: a PINCH tick with no hovered target commits no click, leaves the
\* debounce latch as it was and schedules no cooldown timer.
C28_PinchWithoutTargetIsIdle ==
    [][(ev'.kind = "signal" /\ ev'.gesture = "PINCH" /\ hovered_button' = None) =>
          /\ ev'.click = None
          /\ pinch_active' = pinch_active
          /\ pending'.reset_pinch = pending.reset_pinch
          /\ sentence_text' = sentence_text
          /\ current_mode' = current_mode]_vars

\* A pinch one pixel left of the mode switch, with the latch clear and no
\* cooldown pending: nothing was clicked and the latch is still clear.
C28_Witness ==
    /\ ev.kind = "signal"
    /\ ev.gesture = "PINCH"
    /\ smooth[1] = 14
    /\ hovered_button = None
    /\ ~pinch_active
    /\ pending.reset_pinch = 0

C24_GlyphShapeStable ==
    (probe.op = "normalize_glyph" /\ probe.n = 1) =>
        LET blank == \A y \in 1..RASTER_SIDE : \A x \in 1..RASTER_SIDE :
                        probe.in[y][x] = WHITE
            tensor == probe.out.final_img
        IN IF blank THEN probe.out.none
           ELSE /\ ~probe.out.none
                /\ probe.out.shape = <<1, 28, 28, 1>>
                /\ DOMAIN tensor = 1..28
                /\ \A y \in 1..28 :
                      /\ DOMAIN tensor[y] = 1..28
                      /\ \A x \in 1..28 :
                            /\ tensor[y][x][2] > 0
                            /\ 0 <= tensor[y][x][1]
                            /\ tensor[y][x][1] <= tensor[y][x][2]
                            /\ (y <= 4 \/ y > 24 \/ x <= 4 \/ x > 24)
                                  => tensor[y][x][1] = 0

\* A vertical bar one pixel wide and three tall became a 28 x 28 tensor
\* with the bar in the middle third of the inner 20 x 20 square.
C24_Witness ==
    /\ probe.op = "normalize_glyph"
    /\ probe.n = 1
    /\ probe.out.rect = [x |-> 1, y |-> 0, w |-> 1, h |-> 3]
    /\ probe.out.shape = <<1, 28, 28, 1>>
    /\ probe.out.final_img[14][14] = <<255, 255>>
    /\ probe.out.final_img[14][6] = <<0, 255>>
    /\ probe.out.final_img[5][14] = <<255, 255>>

\* C29: for a crop of width w and height h the padded image is max(w, h)
\* square; the leading pad (top or left) is floor(d / 2) and the trailing
\* pad (bottom or right) is d - floor(d / 2), with d the difference of the
\* two sides, and the longer side gets no padding.
C29_SquarePadding ==
    (probe.op = "square_padding" /\ probe.n = 1) =>
        LET w == probe.in.w
            h == probe.in.h
            longer == IF w >= h THEN w ELSE h
            d == IF w >= h THEN w - h ELSE h - w
            pad == probe.out
        IN /\ h + pad.top + pad.bottom = longer
           /\ w + pad.left + pad.right = longer
           /\ w >= h => /\ pad.top = d \div 2
                        /\ pad.bottom = d - d \div 2
                        /\ pad.left = 0 /\ pad.right = 0
           /\ h >= w => /\ pad.left = d \div 2
                        /\ pad.right = d - d \div 2
                        /\ pad.top = 0 /\ pad.bottom = 0

\* A crop 2 wide and 5 tall: 1 column on the left, 2 on the right.
C29_Witness ==
    /\ probe.op = "square_padding"
    /\ probe.n = 1
    /\ probe.in = [w |-> 2, h |-> 5]
    /\ probe.out = [top |-> 0, bottom |-> 0, left |-> 1, right |-> 2]

\* C30: the crop is the tight bounding box of all non-background pixels:
\* every foreground pixel of the bitmap lies inside it, and every side of
\* it touches a foreground pixel.
C30_CropHoldsAllInk ==
    (probe.op = "normalize_glyph" /\ probe.n = 1 /\ ~probe.out.none) =>
        LET ink_at == {c \in (1..RASTER_SIDE) \X (1..RASTER_SIDE) :
                          probe.in[c[2]][c[1]] # WHITE}
            rect == probe.out.rect
        IN /\ \A c \in ink_at :
                 /\ rect.x < c[1] /\ c[1] <= rect.x + rect.w
                 /\ rect.y < c[2] /\ c[2] <= rect.y + rect.h
           /\ \E c \in ink_at : c[1] = rect.x + 1
           /\ \E c \in ink_at : c[1] = rect.x + rect.w
           /\ \E c \in ink_at : c[2] = rect.y + 1
           /\ \E c \in ink_at : c[2] = rect.y + rect.h

\* C21: no update runs before the detector, the camera, both classifiers
\* and the speech engine are initialized and the worker has handed off;
\* at most one _finish_setup and one update chain are ever pending, the
\* hand-off happens while the splash screen shows, and once the worker has
\* retired it takes no step and the components stay as it left them.
C21_HandOffOnce ==
    [][/\ ev'.op = "update" =>
             /\ comp.worker = "retired"
             /\ comp.tracker = "ready"
             /\ comp.cap # None
             /\ comp.alphabets_model = "loaded"
             /\ comp.numbers_model = "loaded"
             /\ comp.tts_engine = "in_loop"
       /\ pending'.finish_setup + pending'.update <= 1
       /\ pending'.finish_setup > pending.finish_setup =>
             /\ phase = "loading"
             /\ comp'.worker = "retired"
       /\ comp.worker = "retired" =>
             /\ ev'.op # "worker"
             /\ comp' = comp
      ]_vars

\* The loop runs on what the retired worker loaded, with one update pending.
C21_Witness ==
    /\ phase = "running"
    /\ comp.worker = "retired"
    /\ comp.cap = "opened"
    /\ ev.op = "update"
    /\ ev.kind = "signal"
    /\ pending.finish_setup = 0
    /\ pending.update = 1

\* C22: when the camera did not open or a load raised in the worker, the
\* application does not go on to the interactive loop: no update has run
\* and none is pending.
C22_FailedStartIsFatal ==
    (comp.cap = "unopened" \/ comp.worker = "raised") =>
        /\ phase # "running"
        /\ pending.update = 0
        /\ ev.op # "update"

\* C25: on_close raises nothing, the first time or again, and leaves the
\* camera released and the speech loop ended; an update that runs after
\* on_close gets no frame: it goes into no gesture handling, no recognition
\* and no call of the speech engine, and changes nothing of the session.
C25_ShutdownReleases ==
    [][/\ ev'.op = "on_close" =>
             /\ ~ev'.raised
             /\ ~isOpened(comp')
             /\ comp'.tts_engine # "in_loop"
       /\ (Closed /\ ev'.op = "update") =>
             /\ ev'.kind = "read_fail"
             /\ ev'.recog = "none"
             /\ ev'.said = ""
             /\ ev'.click = None
             /\ ~ev'.raised
             /\ <<sentence_text', last', smooth', pinch_active',
                  hovered_button', current_mode', ink'>>
                = <<sentence_text, last, smooth, pinch_active,
                    hovered_button, current_mode, ink>>
      ]_vars

\* <q> was pressed with a stroke on the canvas and a word in the sentence;
\* the window is still there, and an update has run since.
C25_Witness ==
    /\ phase = "running"
    /\ comp.cap = "released"
    /\ comp.tts_engine = "stopped"
    /\ ev.op = "update"
    /\ ev.kind = "read_fail"
    /\ pending.update = 1
    /\ ink # <<>>
    /\ sentence_text # <<>>

\* C31: the hand is reported as pinching exactly when the distance in
\* pixels between thumb tip and index tip, the horizontal offset scaled by
\* the frame width and the vertical offset by the frame height, is below
\* the pinch threshold.
C31_PinchDistanceInPixels ==
    (probe.op = "process_frame" /\ probe.n = 1) =>
        LET dx == (probe.in[8][1] - probe.in[4][1]) * cam_width
            dy == (probe.in[8][2] - probe.in[4][2]) * cam_height
        IN probe.out.gesture = "PINCH"
              <=> dx * dx + dy * dy
                     < PINCH_THRESHOLD * PINCH_THRESHOLD * LM_GRID * LM_GRID

\* C33: when a delayed _clear_drawing_canvas callback fires, the ink that
\* no recognition has rasterized yet (it was drawn after every recognition
\* that scheduled a clear) is still on the canvas afterwards.
C33_DelayedClearKeepsNewInk ==
    [][ClearCanvas =>
          \A i \in DOMAIN ink :
              ~ink[i].seen => \E j \in DOMAIN ink' : ink'[j] = ink[i]
      ]_vars

\* C32: in every state the pinch latch is set exactly when one reset_pinch
\* callback is pending, and there are never two pending; this is so also
\* after a click whose command failed.
C32_LatchHasItsReset ==
    /\ pending.reset_pinch <= 1
    /\ pinch_active <=> pending.reset_pinch = 1

\* The mode switch was clicked and its command failed: the mode is as it
\* was, the latch is set and its reset is pending.
C32_Witness ==
    /\ ev.click = "btn_switch_mode"
    /\ ev.reported
    /\ ~ev.raised
    /\ pinch_active
    /\ pending.reset_pinch = 1
    /\ pending.update = 1

====
